---- MODULE Spec2Model ----
(***************************************************************************)
(* Model of sunergy-calc (src/src/index.ts): computeSolarPotential,        *)
(* computePanelPower and estimateEnergyProduced.                           *)
(*                                                                         *)
(* A JavaScript number is modelled as a record [k, v]: k is "fin" for a    *)
(* finite value, held as the integer v = value * Q (fixed point, three     *)
(* decimals), or "nan", "pinf", "ninf" for NaN, +Infinity and -Infinity.   *)
(* The sign of zero is not modelled.  Math.sin, Math.cos and Math.asin are *)
(* computed on that fixed-point grid.                                      *)
(***************************************************************************)
EXTENDS Integers, Sequences, FiniteSets, TLC

\* ------------------------------------------------------------ numbers

\* Resolution of the fixed-point grid that stands for the type `number`.
Q == 1000

Fin(v) == [k |-> "fin", v |-> v]
Num(i) == Fin(i * Q)
NaN == [k |-> "nan", v |-> 0]
PosInf == [k |-> "pinf", v |-> 0]
NegInf == [k |-> "ninf", v |-> 0]

IsNaN(x) == x.k = "nan"
IsFinite(x) == x.k = "fin"
IsInf(x) == x.k \in {"pinf", "ninf"}

Abs(i) == IF i < 0 THEN -i ELSE i
Sgn(i) == IF i < 0 THEN -1 ELSE IF i > 0 THEN 1 ELSE 0
IMax(a, b) == IF a >= b THEN a ELSE b
IMin(a, b) == IF a <= b THEN a ELSE b

\* Sign of a number that is not NaN: -1, 0 or 1.
SignOf(x) == IF x.k = "pinf" THEN 1 ELSE IF x.k = "ninf" THEN -1 ELSE Sgn(x.v)
InfOfSign(s) == IF s > 0 THEN PosInf ELSE NegInf

\* a * b / c rounded to nearest, for a, b >= 0 and c > 0, formed without an
\* intermediate product wider than the result (the larger factor is split by c).
MulDivNat(a, b, c) ==
    (IMax(a, b) \div c) * IMin(a, b) + ((IMax(a, b) % c) * IMin(a, b) + c \div 2) \div c

\* ia * ib / ic rounded to nearest, half away from zero, for ic > 0.
MulDivInt(ia, ib, ic) == Sgn(ia) * Sgn(ib) * MulDivNat(Abs(ia), Abs(ib), ic)

\* x < y, x <= y, x > y, x >= y of IEEE numbers: false when either is NaN.
Lt(x, y) ==
    /\ ~IsNaN(x)
    /\ ~IsNaN(y)
    /\ x # y
    /\ \/ x.k = "ninf"
       \/ y.k = "pinf"
       \/ (x.k = "fin" /\ y.k = "fin" /\ x.v < y.v)
Le(x, y) == ~IsNaN(x) /\ ~IsNaN(y) /\ (x = y \/ Lt(x, y))
Gt(x, y) == Lt(y, x)
Ge(x, y) == Le(y, x)
\* x === y of numbers: NaN is equal to nothing.
StrictEq(x, y) == ~IsNaN(x) /\ ~IsNaN(y) /\ x = y

Neg(x) ==
    CASE x.k = "fin" -> Fin(-x.v)
      [] x.k = "pinf" -> NegInf
      [] x.k = "ninf" -> PosInf
      [] OTHER -> NaN

Add(x, y) ==
    IF IsNaN(x) \/ IsNaN(y) THEN NaN
    ELSE IF IsInf(x) /\ IsInf(y) THEN (IF x = y THEN x ELSE NaN)
    ELSE IF IsInf(x) THEN x
    ELSE IF IsInf(y) THEN y
    ELSE Fin(x.v + y.v)

Sub(x, y) == Add(x, Neg(y))

Mul(x, y) ==
    IF IsNaN(x) \/ IsNaN(y) THEN NaN
    ELSE IF IsInf(x) \/ IsInf(y)
         THEN (IF SignOf(x) * SignOf(y) = 0 THEN NaN
               ELSE InfOfSign(SignOf(x) * SignOf(y)))
    ELSE Fin(MulDivInt(x.v, y.v, Q))

Div(x, y) ==
    IF IsNaN(x) \/ IsNaN(y) THEN NaN
    ELSE IF IsInf(x) THEN (IF IsInf(y) THEN NaN
                           ELSE InfOfSign(SignOf(x) * (IF SignOf(y) < 0 THEN -1 ELSE 1)))
    ELSE IF IsInf(y) THEN Fin(0)
    ELSE IF y.v = 0 THEN (IF x.v = 0 THEN NaN ELSE InfOfSign(Sgn(x.v)))
    ELSE Fin(Sgn(y.v) * MulDivInt(x.v, Q, Abs(y.v)))

\* x % y for the one use the code makes of it: y finite and positive. The
\* result has the sign of the dividend.
Rem(x, y) ==
    IF IsNaN(x) \/ IsInf(x) THEN NaN
    ELSE Fin(Sgn(x.v) * (Abs(x.v) % y.v))

MathMax(x, y) == IF IsNaN(x) \/ IsNaN(y) THEN NaN ELSE IF Ge(x, y) THEN x ELSE y
MathMin(x, y) == IF IsNaN(x) \/ IsNaN(y) THEN NaN ELSE IF Le(x, y) THEN x ELSE y

\* Math.round: halves round towards +Infinity.
MathRound(x) == IF IsFinite(x) THEN Fin(((x.v + Q \div 2) \div Q) * Q) ELSE x

\* ------------------------------------------------------- trigonometry

\* Math.PI on the grid.
PI == Fin(3142)
HalfPiV == 1571
TwoPiV == 6283

\* Maclaurin polynomials on [0, pi/2], argument and value in units of 1/Q;
\* x2 is the square of x.
Times(t, x2) == MulDivNat(t, x2, Q)

SinSeries(x, x2) ==
    IMin(Q, x - (Times(x, x2) + 3) \div 6
              + (Times(Times(x, x2), x2) + 60) \div 120
              - (Times(Times(Times(x, x2), x2), x2) + 2520) \div 5040
              + (Times(Times(Times(Times(x, x2), x2), x2), x2) + 181440) \div 362880)
SinPoly(x) == SinSeries(x, MulDivNat(x, x, Q))

CosSeries(x2) ==
    IMax(0, Q - (x2 + 1) \div 2
              + (Times(x2, x2) + 12) \div 24
              - (Times(Times(x2, x2), x2) + 360) \div 720
              + (Times(Times(Times(x2, x2), x2), x2) + 20160) \div 40320
              - (Times(Times(Times(Times(x2, x2), x2), x2), x2) + 1814400) \div 3628800)
CosPoly(x) == CosSeries(MulDivNat(x, x, Q))

\* The argument reduced to [-pi, pi]. Math.sin is odd and Math.cos is even, so
\* the reduction of -v is the negation of the reduction of v.
ReduceNat(a) == IF (a % TwoPiV) > PI.v THEN (a % TwoPiV) - TwoPiV ELSE a % TwoPiV
Reduce(v) == Sgn(v) * ReduceNat(Abs(v))

\* Sine and cosine of an angle r reduced to [-pi, pi].
SinReduced(r) ==
    Sgn(r) * SinPoly(IF Abs(r) > HalfPiV THEN PI.v - Abs(r) ELSE Abs(r))
CosReduced(r) ==
    IF Abs(r) > HalfPiV THEN -CosPoly(PI.v - Abs(r)) ELSE CosPoly(Abs(r))

MathSin(x) == IF ~IsFinite(x) THEN NaN ELSE Fin(SinReduced(Reduce(x.v)))
MathCos(x) == IF ~IsFinite(x) THEN NaN ELSE Fin(CosReduced(Reduce(x.v)))

\* The largest angle in lo..hi whose sine does not exceed y (bisection).
RECURSIVE AsinSearch(_, _, _)
AsinSearch(y, lo, hi) ==
    IF lo >= hi THEN lo
    ELSE IF SinPoly((lo + hi + 1) \div 2) <= y
         THEN AsinSearch(y, (lo + hi + 1) \div 2, hi)
         ELSE AsinSearch(y, lo, (lo + hi + 1) \div 2 - 1)

MathAsin(x) ==
    IF ~IsFinite(x) \/ Abs(x.v) > Q THEN NaN
    ELSE Fin(Sgn(x.v) * AsinSearch(Abs(x.v), 0, HalfPiV))

\* --------------------------------------------------------------- Date

\* const oneDay: milliseconds in a day.
oneDay == 24 * 60 * 60 * 1000

\* A time value is valid within 8.64e15 ms of the epoch: 100,000,000 days.
MaxDay == 100000000

\* A time value: NaN, or day * oneDay + ms with 0 <= ms < oneDay. (The time
\* values reach 8.64e15, so they are kept as a day number and a remainder.)
NaNTime == [nan |-> TRUE, day |-> 0, ms |-> 0]
TimeOf(day, ms) == [nan |-> FALSE, day |-> day, ms |-> ms]

\* TimeClip: a time value beyond the range is NaN.
TimeClip(day, ms) ==
    IF day < -MaxDay \/ day > MaxDay \/ (day = MaxDay /\ ms > 0)
    THEN NaNTime ELSE TimeOf(day, ms)

\* A Date object holds a time value; NotADate stands for any argument that is
\* not a Date object (the test passes the string "bad-date").
DateObj(tv) == [isDate |-> TRUE, tv |-> tv]
NotADate == [isDate |-> FALSE, tv |-> NaNTime]

\* Day number of January 1 of year y (proleptic Gregorian), days since 1970-01-01.
DayFromYear(y) ==
    365 * (y - 1970) + ((y - 1969) \div 4) - ((y - 1901) \div 100)
        + ((y - 1601) \div 400)

DaysInYear(y) == DayFromYear(y + 1) - DayFromYear(y)

RECURSIVE YearAdjust(_, _)
YearAdjust(y, day) ==
    IF DayFromYear(y) > day THEN YearAdjust(y - 1, day)
    ELSE IF DayFromYear(y + 1) <= day THEN YearAdjust(y + 1, day)
    ELSE y

\* date.getUTCFullYear(), date valid: the year y with
\* DayFromYear(y) <= day < DayFromYear(y + 1).
YearFromDay(day) ==
    YearAdjust(1970 + 400 * (day \div 146097) + ((day % 146097) * 400) \div 146097, day)
getUTCFullYear(date) == YearFromDay(date.tv.day)

getUTCHours(date) == date.tv.ms \div (60 * 60 * 1000)
getUTCMinutes(date) == (date.tv.ms \div (60 * 1000)) % 60
getUTCSeconds(date) == (date.tv.ms \div 1000) % 60

IsLeapYear(y) == DaysInYear(y) = 366

\* Days of the year before the first of month m (0 = January .. 11 = December).
DaysBeforeMonth(y, m) ==
    <<0, 31, 59, 90, 120, 151, 181, 212, 243, 273, 304, 334>>[m + 1]
        + (IF m >= 2 /\ IsLeapYear(y) THEN 1 ELSE 0)

\* MakeDay: the day number of the given year, month (0-based) and day of month;
\* day 0 of a month is the last day of the month before.
MakeDay(year, month, date) == DayFromYear(year) + DaysBeforeMonth(year, month) + date - 1

\* The Date object whose UTC fields are these, as the tests build with
\* new Date(Date.UTC(...)).
DateAt(year, month, date, h, m, s, ms) ==
    DateObj(TimeClip(MakeDay(year, month, date), ((h * 60 + m) * 60 + s) * 1000 + ms))

\* Date.UTC(year, month, date): a year of 0..99 means 1900 + year; the result
\* is time-clipped.
DateUTC(year, month, date) ==
    TimeClip(MakeDay(IF 0 <= year /\ year <= 99 THEN 1900 + year ELSE year, month, date), 0)

\* getDayOfYear: Math.floor((date.getTime() - start.getTime()) / oneDay). The
\* remainder of diff by oneDay is date's ms, so the floor is the day difference.
DayOfYearFrom(date, start) ==
    IF start.tv.nan THEN NaN
    ELSE Num((date.tv.day - start.tv.day) + ((date.tv.ms - start.tv.ms) \div oneDay))
getDayOfYear(date) == DayOfYearFrom(date, DateObj(DateUTC(getUTCFullYear(date), 0, 0)))

\* -------------------------------------------------------------- helpers

toRadians(deg) ==
    IF IsFinite(deg) THEN Fin(MulDivInt(deg.v, PI.v, 180 * Q)) ELSE deg
toDegrees(rad) ==
    IF IsFinite(rad) THEN Fin(MulDivInt(rad.v, 180 * Q, PI.v)) ELSE rad

clamp(value, min, max) == MathMax(min, MathMin(max, value))

\* ------------------------------------------------ computeSolarPotential

NoValue == [none |-> TRUE]
Thrown(msg) == [status |-> "error", error |-> msg, value |-> NoValue]
Returned(val) == [status |-> "ok", error |-> "", value |-> val]

LatitudeError == "Latitude must be in [-90, 90]."
LongitudeError == "Longitude must be in [-180, 180]."
DateError == "Invalid Date object."


\* BadLatitude with the boundaries rejected (<= and >= for < and >).
BadLatitude_exclusive(lat) == IsNaN(lat) \/ Le(lat, Num(-90)) \/ Ge(lat, Num(90))

BadLatitude(lat) == IsNaN(lat) \/ Lt(lat, Num(-90)) \/ Gt(lat, Num(90))
BadLongitude(lon) == IsNaN(lon) \/ Lt(lon, Num(-180)) \/ Gt(lon, Num(180))
BadDate(date) == ~date.isDate \/ date.tv.nan

\* Solar constant, W/m^2.
I0 == Num(1367)

\* 23.45 * Math.sin(toRadians((360 / 365) * (n - 81)))
Declination(n) ==
    Mul(Fin(23450), MathSin(toRadians(Mul(Div(Num(360), Num(365)), Sub(n, Num(81))))))

\* date.getUTCHours() + date.getUTCMinutes() / 60 + date.getUTCSeconds() / 3600
UTCHourOfDay(date) ==
    Add(Add(Num(getUTCHours(date)), Div(Num(getUTCMinutes(date)), Num(60))),
        Div(Num(getUTCSeconds(date)), Num(3600)))

\* 15 * Math.round(lon / 15)
NearestMeridian(lon) == Mul(Num(15), MathRound(Div(lon, Num(15))))

\* 7.5 * Math.sin(toRadians((360 / 365) * (n - 81)))
EquationOfTime(n) ==
    Mul(Fin(7500), MathSin(toRadians(Mul(Div(Num(360), Num(365)), Sub(n, Num(81))))))

\* 15 * (hours + (eqTime + 4 * (lon - lstm)) / 60 - 12)
TimeOffset(eqTime, lon, lstm) == Add(eqTime, Mul(Num(4), Sub(lon, lstm)))
SolarTime(hours, timeOffset) == Add(hours, Div(timeOffset, Num(60)))
HourAngle(hours, eqTime, lon, lstm) ==
    Mul(Num(15), Sub(SolarTime(hours, TimeOffset(eqTime, lon, lstm)), Num(12)))

SinAltitude(latRad, declRad, haRad) ==
    clamp(Add(Mul(MathSin(latRad), MathSin(declRad)),
              Mul(Mul(MathCos(latRad), MathCos(declRad)), MathCos(haRad))),
          Num(-1), Num(1))


\* SunIsUp with the horizon counted as daytime (>= for >).
SunIsUp_inclusive(altitude) == Ge(altitude, Num(0))

\* The test of the daytime branch: altitude > 0.
SunIsUp(altitude) == Gt(altitude, Num(0))


\* SinAzimuthRaw without the test for den === 0.
SinAzimuthRaw_unguarded(declRad, haRad, den) ==
    Div(Mul(MathCos(declRad), MathSin(haRad)), den)

\* den === 0 ? 0 : (Math.cos(declRad) * Math.sin(haRad)) / den
SinAzimuthRaw(declRad, haRad, den) ==
    IF StrictEq(den, Num(0)) THEN Num(0)
    ELSE Div(Mul(MathCos(declRad), MathSin(haRad)), den)

\* QuadrantCorrected with its two branches exchanged.
QuadrantCorrected_swapped(az, hourAngle) ==
    IF Gt(hourAngle, Num(0)) THEN Add(Num(180), az) ELSE Sub(Num(180), az)

\* The quadrant correction and the normalisation into [0, 360).
QuadrantCorrected(az, hourAngle) ==
    IF Gt(hourAngle, Num(0)) THEN Sub(Num(180), az) ELSE Add(Num(180), az)
AzimuthOf(sinAz, hourAngle) ==
    Rem(Add(QuadrantCorrected(toDegrees(MathAsin(sinAz)), hourAngle), Num(360)), Num(360))

GroundIrradiance(sinAlt) == MathMax(Num(0), Mul(I0, sinAlt))

\* The locals of a call that passed the argument checks, in the order the code
\* computes them. t holds the locals up to the hour angle, a those up to the
\* altitude.
DaytimeLocals(t, a, den, sinAz) ==
    [n |-> t.n, decl |-> t.decl, hours |-> t.hours, lstm |-> t.lstm,
     eqTime |-> t.eqTime, hourAngle |-> t.hourAngle, sinAlt |-> a.sinAlt,
     altitude |-> a.altitude, zenith |-> a.zenith, den |-> den, sinAz |-> sinAz,
     azimuth |-> AzimuthOf(sinAz, t.hourAngle),
     groundIrradiance |-> GroundIrradiance(a.sinAlt)]

NightLocals(t, a) ==
    [n |-> t.n, decl |-> t.decl, hours |-> t.hours, lstm |-> t.lstm,
     eqTime |-> t.eqTime, hourAngle |-> t.hourAngle, sinAlt |-> a.sinAlt,
     altitude |-> a.altitude, zenith |-> a.zenith, den |-> NaN, sinAz |-> NaN,
     azimuth |-> NaN, groundIrradiance |-> Num(0)]

WithDen(t, a, den) ==
    DaytimeLocals(t, a, den,
        clamp(SinAzimuthRaw(toRadians(t.decl), toRadians(t.hourAngle), den),
              Num(-1), Num(1)))

WithAltitude(t, a) ==
    IF SunIsUp(a.altitude) THEN WithDen(t, a, MathCos(toRadians(a.altitude)))
    ELSE NightLocals(t, a)

AltitudeLocals(sinAlt, altitude) ==
    [sinAlt |-> sinAlt, altitude |-> altitude, zenith |-> Sub(Num(90), altitude)]

WithSinAlt(t, sinAlt) ==
    WithAltitude(t, AltitudeLocals(sinAlt, toDegrees(MathAsin(sinAlt))))

WithTimes(lat, t) ==
    WithSinAlt(t, SinAltitude(toRadians(lat), toRadians(t.decl), toRadians(t.hourAngle)))

TimeLocals(n, decl, hours, lstm, eqTime, lon) ==
    [n |-> n, decl |-> decl, hours |-> hours, lstm |-> lstm, eqTime |-> eqTime,
     hourAngle |-> HourAngle(hours, eqTime, lon, lstm)]

WithDay(lat, lon, date, n) ==
    WithTimes(lat, TimeLocals(n, Declination(n), UTCHourOfDay(date),
                              NearestMeridian(lon), EquationOfTime(n), lon))

SolarLocals(lat, lon, date) == WithDay(lat, lon, date, getDayOfYear(date))

SolarPosition(l) ==
    [declination |-> l.decl, hourAngle |-> l.hourAngle, altitude |-> l.altitude,
     azimuth |-> l.azimuth, zenith |-> l.zenith, irradiance |-> l.groundIrradiance]

computeSolarPotential(lat, lon, date) ==
    IF BadLatitude(lat) THEN Thrown(LatitudeError)
    ELSE IF BadLongitude(lon) THEN Thrown(LongitudeError)
    ELSE IF BadDate(date) THEN Thrown(DateError)
    ELSE Returned(SolarPosition(SolarLocals(lat, lon, date)))

\* ---------------------------------------------------- computePanelPower

AreaError == "Area must be >= 0."
EfficiencyError == "Efficiency in range 0-1."

BadArea(area) == Lt(area, Num(0)) \/ ~IsFinite(area)
BadEfficiency(efficiency) == Lt(efficiency, Num(0)) \/ Gt(efficiency, Num(1))


\* PanelPower without the clamp of a negative irradiance.
PanelPower_unclamped(area, efficiency, irradiance) ==
    Mul(Mul(area, efficiency), irradiance)

\* if (irradiance < 0) return 0; return area * efficiency * irradiance;
PanelPower(area, efficiency, irradiance) ==
    IF Lt(irradiance, Num(0)) THEN Num(0)
    ELSE Mul(Mul(area, efficiency), irradiance)

computePanelPower(area, efficiency, irradiance) ==
    IF BadArea(area) THEN Thrown(AreaError)
    ELSE IF BadEfficiency(efficiency) THEN Thrown(EfficiencyError)
    ELSE Returned(PanelPower(area, efficiency, irradiance))

\* ----------------------------------------------- estimateEnergyProduced

PanelAreaError == "Panel area must be >= 0."
IrradianceError == "Irradiance must be >= 0"
PerformanceRatioError == "Performance ratio in 0-1"
PeriodError == "Period hours must be > 0"

\* An omitted argument.
Undefined == [k |-> "undefined", v |-> 0]

\* performanceRatio: number = 0.75
DefaultPerformanceRatio == Fin(750)
PerformanceRatioOf(arg) == IF arg = Undefined THEN DefaultPerformanceRatio ELSE arg

BadIrradiance(averageIrradiance) == Lt(averageIrradiance, Num(0))
BadPerformanceRatio(pr) == Lt(pr, Num(0)) \/ Gt(pr, Num(1))
BadPeriod(periodHours) == Le(periodHours, Num(0))


\* EnergyKWh without the conversion from Wh to kWh.
EnergyKWh_inWh(area, efficiency, averageIrradiance, periodHours, performanceRatio) ==
    Mul(Mul(Mul(area, efficiency), Mul(averageIrradiance, periodHours)),
        performanceRatio)

\* area * efficiency * ((averageIrradiance * periodHours) / 1000) * performanceRatio
EnergyKWh(area, efficiency, averageIrradiance, periodHours, performanceRatio) ==
    Mul(Mul(Mul(area, efficiency),
            Div(Mul(averageIrradiance, periodHours), Num(1000))),
        performanceRatio)

EnergyOutcome(area, efficiency, averageIrradiance, periodHours, performanceRatio) ==
    IF BadArea(area) THEN Thrown(PanelAreaError)
    ELSE IF BadEfficiency(efficiency) THEN Thrown(EfficiencyError)
    ELSE IF BadIrradiance(averageIrradiance) THEN Thrown(IrradianceError)
    ELSE IF BadPerformanceRatio(performanceRatio) THEN Thrown(PerformanceRatioError)
    ELSE IF BadPeriod(periodHours) THEN Thrown(PeriodError)
    ELSE Returned(EnergyKWh(area, efficiency, averageIrradiance, periodHours,
                            performanceRatio))

estimateEnergyProduced(area, efficiency, averageIrradiance, periodHours, prArg) ==
    EnergyOutcome(area, efficiency, averageIrradiance, periodHours,
                  PerformanceRatioOf(prArg))

\* -------------------------------------------------------- the callers


\* DateAfterCall when the start of the year is found by moving the argument
\* itself (date.setUTCMonth(0, 0)) instead of building a new Date.
DateAfterCall_movedToYearStart(date) == DateObj(DateUTC(getUTCFullYear(date), 0, 0))

\* What the three operations do to the Date object they are handed: they only
\* read it (instanceof, getTime, getUTCFullYear, getUTCHours, getUTCMinutes,
\* getUTCSeconds); getDayOfYear builds a new Date for the start of the year.
DateAfterCall(date) == date

\* A call: the operation and its arguments. Undefined fills the parameters the
\* operation does not have, and stands for an omitted performanceRatio.
SolarCall(lat, lon, date) ==
    [op |-> "solar", lat |-> lat, lon |-> lon, date |-> date, area |-> Undefined,
     efficiency |-> Undefined, irradiance |-> Undefined, periodHours |-> Undefined,
     performanceRatio |-> Undefined]
PowerCall(area, efficiency, irradiance) ==
    [op |-> "power", lat |-> Undefined, lon |-> Undefined, date |-> Undefined,
     area |-> area, efficiency |-> efficiency, irradiance |-> irradiance,
     periodHours |-> Undefined, performanceRatio |-> Undefined]
EnergyCall(area, efficiency, averageIrradiance, periodHours, performanceRatio) ==
    [op |-> "energy", lat |-> Undefined, lon |-> Undefined, date |-> Undefined,
     area |-> area, efficiency |-> efficiency, irradiance |-> averageIrradiance,
     periodHours |-> periodHours, performanceRatio |-> performanceRatio]

\* Argument values the calls are drawn from.
Latitudes ==
    {NaN, NegInf, PosInf, Num(-91), Fin(-90001), Num(-90), Fin(-23450), Num(0),
     Fin(40713), Fin(66500), Num(90), Fin(90001), Num(91)}
Longitudes ==
    {NaN, NegInf, PosInf, Num(-181), Num(-180), Fin(-74006), Fin(-7500),
     Fin(-1875), Num(0), Fin(5625), Fin(7500), Num(15), Num(180), Fin(180001)}
InvalidDate == DateObj(NaNTime)
ValidDates ==
    {DateAt(2025, 0, 1, 0, 0, 0, 0), DateAt(2025, 0, 1, 23, 59, 59, 999),
     DateAt(2025, 0, 2, 0, 0, 0, 0), DateAt(2025, 11, 31, 23, 59, 59, 999),
     DateAt(2024, 1, 29, 6, 30, 15, 0), DateAt(2024, 2, 1, 12, 0, 0, 0),
     DateAt(2024, 11, 31, 12, 0, 0, 0), DateAt(2025, 2, 21, 12, 0, 0, 0),
     DateAt(2025, 2, 21, 0, 0, 0, 0), DateAt(2025, 2, 22, 12, 0, 0, 0),
     DateAt(2025, 2, 22, 18, 0, 0, 0), DateAt(2025, 2, 22, 9, 0, 0, 0),
     DateAt(2025, 2, 22, 15, 0, 0, 0), DateAt(2025, 5, 21, 0, 0, 0, 0),
     DateAt(2025, 5, 21, 23, 30, 0, 0), DateAt(2025, 5, 21, 12, 0, 0, 0), DateAt(2025, 7, 15, 16, 0, 0, 0),
     DateAt(2025, 11, 21, 15, 45, 30, 0), DateAt(1970, 0, 1, 0, 0, 0, 0),
     DateAt(1969, 11, 31, 23, 59, 59, 999), DateAt(1900, 11, 31, 12, 0, 0, 0),
     DateAt(2000, 1, 29, 12, 0, 0, 0), DateAt(100, 0, 1, 0, 0, 0, 0),
     DateAt(99, 11, 31, 12, 0, 0, 0), DateAt(50, 5, 15, 12, 0, 0, 0),
     DateAt(0, 0, 1, 0, 0, 0, 0), DateAt(-1, 11, 31, 23, 59, 59, 999),
     DateAt(-271821, 3, 20, 0, 0, 0, 0), DateAt(-271821, 11, 31, 12, 0, 0, 0),
     DateAt(-271820, 0, 1, 0, 0, 0, 0), DateAt(275760, 8, 13, 0, 0, 0, 0)}
Dates == ValidDates \cup {InvalidDate, NotADate}

Areas == {NaN, NegInf, PosInf, Num(-2), Fin(-1), Num(0), Fin(1500), Num(2), Num(4)}
Efficiencies ==
    {NaN, NegInf, PosInf, Fin(-100), Num(0), Fin(200), Fin(400), Num(1), Fin(1100)}
Irradiances == {NaN, NegInf, PosInf, Num(-10), Num(0), Num(500), Num(1000)}
AverageIrradiances == {NaN, PosInf, Num(-100), Num(0), Num(100), Num(200)}
Periods == {NaN, PosInf, NegInf, Num(-1), Num(0), Num(24), Num(48)}
PerformanceRatios ==
    {Undefined, NaN, PosInf, Fin(-100), Num(0), Fin(375), Fin(750), Fin(800), Num(1),
     Num(2)}

SolarCalls == {SolarCall(lat, lon, d) : lat \in Latitudes, lon \in Longitudes, d \in Dates}
PowerCalls ==
    {PowerCall(a, e, x) : a \in Areas, e \in Efficiencies, x \in Irradiances}
EnergyCalls ==
    {EnergyCall(a, e, x, h, r) :
        a \in {NaN, PosInf, Num(-2), Num(0), Num(2), Num(4)},
        e \in {NaN, Fin(-100), Fin(200), Fin(400), Fin(1100)},
        x \in AverageIrradiances, h \in Periods, r \in PerformanceRatios}
Calls == SolarCalls \cup PowerCalls \cup EnergyCalls

\* The calls a caller makes one after another.
SeqCalls ==
    {SolarCall(lat, lon, d) :
        lat \in {Num(-91), Num(0), Fin(40713)}, lon \in {Num(0), Num(181)},
        d \in {DateAt(2025, 2, 21, 12, 0, 0, 0), DateAt(2025, 7, 15, 16, 0, 0, 0),
               InvalidDate}}
    \cup {PowerCall(a, Fin(200), x) : a \in {Num(-2), Num(2)}, x \in {Num(-10), Num(1000)}}
    \cup {EnergyCall(Num(2), Fin(200), Num(100), h, Undefined) : h \in {Num(0), Num(24)}}

\* How many calls a caller makes in a row.
MaxCalls == 2

\* ------------------------------------------------------ state machine

VARIABLES
    pc,      \* "ready": the call is about to be made; "done": it has ended
    call,    \* the call: operation and arguments as the caller wrote them
    heap,    \* the caller's Date object: the value it was built with, and now
    out,     \* the outcome of the call: the value returned or the error thrown
    locals,  \* the locals of the last computeSolarPotential that returned
    hist     \* the calls made so far, each with its outcome

vars == <<pc, call, heap, out, locals, hist>>

NoOutcome == [status |-> "none", error |-> "", value |-> NoValue]
NoObject == [given |-> Undefined, now |-> Undefined]
FreshDate(d) == [given |-> d, now |-> d]

InitWith(calls) ==
    /\ pc = "ready"
    /\ call \in calls
    /\ heap = IF call.op = "solar" THEN FreshDate(call.date) ELSE NoObject
    /\ out = NoOutcome
    /\ locals = NoValue
    /\ hist = <<>>

Init == InitWith(Calls)
InitSeq == InitWith(SeqCalls)

Finish(outcome) ==
    /\ out' = outcome
    /\ pc' = "done"
    /\ hist' = Append(hist, [call |-> call, out |-> outcome])
    /\ UNCHANGED call

ComputeSolarPotential ==
    /\ pc = "ready"
    /\ call.op = "solar"
    /\ \E outcome \in {computeSolarPotential(call.lat, call.lon, heap.now)} :
          /\ Finish(outcome)
          /\ locals' = IF outcome.status = "ok"
                       THEN SolarLocals(call.lat, call.lon, heap.now) ELSE NoValue
          /\ heap' = IF outcome.status = "ok"
                     THEN [heap EXCEPT !.now = DateAfterCall(heap.now)] ELSE heap

ComputePanelPower ==
    /\ pc = "ready"
    /\ call.op = "power"
    /\ Finish(computePanelPower(call.area, call.efficiency, call.irradiance))
    /\ UNCHANGED <<heap, locals>>

EstimateEnergyProduced ==
    /\ pc = "ready"
    /\ call.op = "energy"
    /\ Finish(estimateEnergyProduced(call.area, call.efficiency, call.irradiance,
                                     call.periodHours, call.performanceRatio))
    /\ UNCHANGED <<heap, locals>>

\* The caller goes on to its next call. A solar call for the instant of the Date
\* object it already holds passes that object again; otherwise it builds a new one.
NextCall ==
    /\ pc = "done"
    /\ Len(hist) < MaxCalls
    /\ \E c \in SeqCalls :
          /\ call' = c
          /\ heap' = IF c.op = "solar" /\ c.date # heap.given THEN FreshDate(c.date)
                     ELSE heap
    /\ pc' = "ready"
    /\ UNCHANGED <<out, locals, hist>>

Next == ComputeSolarPotential \/ ComputePanelPower \/ EstimateEnergyProduced
NextSeq == Next \/ NextCall

Spec == Init /\ [][Next]_vars
SeqSpec == InitSeq /\ [][NextSeq]_vars

\* --------------------------------------------------------------- claims

SolarDone == pc = "done" /\ call.op = "solar"
SolarReturned == SolarDone /\ out.status = "ok"
PowerDone == pc = "done" /\ call.op = "power"
EnergyDone == pc = "done" /\ call.op = "energy"

\* lo <= x <= hi; false of NaN.
Within(x, lo, hi) == Ge(x, lo) /\ Le(x, hi)

\* Factors the linearity claims scale an argument by.
Scales == {2, 3}

\* C1: when computeSolarPotential returns an altitude <= 0, the irradiance it
\* returns is exactly 0 and the azimuth is NaN.
C1_NightHasNoSun ==
    (SolarReturned /\ Le(out.value.altitude, Num(0)))
        => (out.value.irradiance = Num(0) /\ IsNaN(out.value.azimuth))

\* C1 witness: a call returned with the sun exactly on the horizon.
C1_Witness ==
    /\ SolarReturned
    /\ out.value.altitude = Num(0)
    /\ out.value.irradiance = Num(0)
    /\ IsNaN(out.value.azimuth)

\* C2: when computeSolarPotential returns an altitude > 0, the irradiance is
\* > 0 and the azimuth is a number in [0, 360); where cos(altitude) is 0 the
\* quotient is not formed (sinAz is 0) and the azimuth is still such a number.
C2_DaytimeIsDefined ==
    (SolarReturned /\ Gt(out.value.altitude, Num(0)))
        => /\ Gt(out.value.irradiance, Num(0))
           /\ Ge(out.value.azimuth, Num(0))
           /\ Lt(out.value.azimuth, Num(360))
           /\ StrictEq(locals.den, Num(0)) => locals.sinAz = Num(0)

\* C2 witness: a daytime call at the zenith, where cos(altitude) is 0.
C2_Witness ==
    /\ SolarReturned
    /\ Gt(out.value.altitude, Num(0))
    /\ locals.den = Num(0)
    /\ out.value.azimuth = Num(180)

ValidInstant(date) == date.isDate /\ ~date.tv.nan

\* C3: computeSolarPotential throws exactly when the latitude is not in
\* [-90, 90], the longitude is not in [-180, 180] or the date is not a valid
\* Date; the error thrown names a constraint the arguments violate, and the
\* date error differs from the two range errors.
C3_ArgumentChecks ==
    SolarDone =>
        /\ (out.status = "error")
              <=> \/ ~Within(call.lat, Num(-90), Num(90))
                  \/ ~Within(call.lon, Num(-180), Num(180))
                  \/ ~ValidInstant(call.date)
        /\ out.status \in {"ok", "error"}
        /\ out.status = "error"
              => out.error \in {LatitudeError, LongitudeError, DateError}
        /\ out.error = LatitudeError => ~Within(call.lat, Num(-90), Num(90))
        /\ out.error = LongitudeError => ~Within(call.lon, Num(-180), Num(180))
        /\ out.error = DateError => ~ValidInstant(call.date)
        /\ DateError \notin {LatitudeError, LongitudeError}

\* C3 witness: latitude and longitude on their boundaries and an invalid Date:
\* the call fails with the date error.
C3_Witness ==
    /\ SolarDone
    /\ call.lat = Num(90)
    /\ call.lon = Num(-180)
    /\ call.date = InvalidDate
    /\ out = Thrown(DateError)

\* C4: computePanelPower throws exactly when the area is negative or not
\* finite or the efficiency is not a value within [0, 1] (NaN included),
\* whatever the irradiance.
C4_PanelPowerRejects ==
    PowerDone =>
        ((out.status = "error")
            <=> \/ Lt(call.area, Num(0))
                \/ ~IsFinite(call.area)
                \/ ~Within(call.efficiency, Num(0), Num(1)))

\* C5: estimateEnergyProduced throws exactly when the area is negative or not
\* finite, the efficiency or the performance ratio is not within [0, 1], the
\* average irradiance is negative, or the period is not > 0.
C5_EnergyRejects ==
    EnergyDone =>
        ((out.status = "error")
            <=> \/ Lt(call.area, Num(0))
                \/ ~IsFinite(call.area)
                \/ ~Within(call.efficiency, Num(0), Num(1))
                \/ Lt(call.irradiance, Num(0))
                \/ ~Within(IF call.performanceRatio = Undefined THEN Fin(750)
                           ELSE call.performanceRatio, Num(0), Num(1))
                \/ ~Gt(call.periodHours, Num(0)))

\* C6: for a valid area and efficiency computePanelPower returns 0 when the
\* irradiance is <= 0 and area * efficiency * irradiance when it is > 0, and
\* scaling the area, or the efficiency within [0, 1], by k scales the result by k.
C6_PanelPowerFormula ==
    (PowerDone /\ out.status = "ok" /\ Within(call.efficiency, Num(0), Num(1)))
        => /\ Le(call.irradiance, Num(0)) => out.value = Num(0)
           /\ Gt(call.irradiance, Num(0))
                 => out.value = Mul(Mul(call.area, call.efficiency), call.irradiance)
           /\ \A k \in Scales :
                 /\ computePanelPower(Mul(Num(k), call.area), call.efficiency,
                                      call.irradiance)
                       = Returned(Mul(Num(k), out.value))
                 /\ Le(Mul(Num(k), call.efficiency), Num(1))
                       => computePanelPower(call.area, Mul(Num(k), call.efficiency),
                                            call.irradiance)
                             = Returned(Mul(Num(k), out.value))

\* C6 witness: the call of the test, computePanelPower(2, 0.2, 1000) = 400.
C6_Witness ==
    /\ PowerDone
    /\ call.area = Num(2)
    /\ call.efficiency = Fin(200)
    /\ call.irradiance = Num(1000)
    /\ out = Returned(Num(400))

\* The performance ratio a call of estimateEnergyProduced asks for.
AskedRatio == IF call.performanceRatio = Undefined THEN Fin(750) ELSE call.performanceRatio

\* C7: for valid arguments estimateEnergyProduced returns
\* area * efficiency * (averageIrradiance * periodHours / 1000) * performanceRatio,
\* with 0.75 for an omitted performanceRatio, and scaling any one argument by k
\* (efficiency and performanceRatio within [0, 1]) scales the result by k.
C7_EnergyFormula ==
    (EnergyDone /\ out.status = "ok" /\ Within(call.efficiency, Num(0), Num(1))
        /\ Within(AskedRatio, Num(0), Num(1)) /\ Gt(call.periodHours, Num(0)))
        => /\ out.value
                 = Mul(Mul(Mul(call.area, call.efficiency),
                           Div(Mul(call.irradiance, call.periodHours), Num(1000))),
                       AskedRatio)
           /\ \A k \in Scales :
                 /\ estimateEnergyProduced(Mul(Num(k), call.area), call.efficiency,
                        call.irradiance, call.periodHours, call.performanceRatio)
                       = Returned(Mul(Num(k), out.value))
                 /\ Le(Mul(Num(k), call.efficiency), Num(1))
                       => estimateEnergyProduced(call.area,
                              Mul(Num(k), call.efficiency), call.irradiance,
                              call.periodHours, call.performanceRatio)
                             = Returned(Mul(Num(k), out.value))
                 /\ estimateEnergyProduced(call.area, call.efficiency,
                        Mul(Num(k), call.irradiance), call.periodHours,
                        call.performanceRatio)
                       = Returned(Mul(Num(k), out.value))
                 /\ estimateEnergyProduced(call.area, call.efficiency,
                        call.irradiance, Mul(Num(k), call.periodHours),
                        call.performanceRatio)
                       = Returned(Mul(Num(k), out.value))
                 /\ Le(Mul(Num(k), AskedRatio), Num(1))
                       => estimateEnergyProduced(call.area, call.efficiency,
                              call.irradiance, call.periodHours,
                              Mul(Num(k), AskedRatio))
                             = Returned(Mul(Num(k), out.value))

\* C7 witness: estimateEnergyProduced(2, 0.2, 100, 24) with the performance
\* ratio omitted returns 2 * 0.2 * 2.4 * 0.75 = 0.72.
C7_Witness ==
    /\ EnergyDone
    /\ call.area = Num(2)
    /\ call.efficiency = Fin(200)
    /\ call.irradiance = Num(100)
    /\ call.periodHours = Num(24)
    /\ call.performanceRatio = Undefined
    /\ out = Returned(Fin(720))

\* C8: when computeSolarPotential returns, the zenith equals 90 - altitude,
\* the altitude is in [-90, 90] and the zenith in [0, 180].
C8_ZenithComplement ==
    SolarReturned
        => /\ StrictEq(out.value.zenith, Sub(Num(90), out.value.altitude))
           /\ Within(out.value.altitude, Num(-90), Num(90))
           /\ Within(out.value.zenith, Num(0), Num(180))

\* The outcome of a call made alone, on the arguments as the caller wrote them.
OutcomeAlone(c) ==
    CASE c.op = "solar" -> computeSolarPotential(c.lat, c.lon, c.date)
      [] c.op = "power" -> computePanelPower(c.area, c.efficiency, c.irradiance)
      [] c.op = "energy" ->
            estimateEnergyProduced(c.area, c.efficiency, c.irradiance, c.periodHours,
                                   c.performanceRatio)

\* C9: in any sequence of calls, failed calls included, each call has the
\* outcome it has when made alone, and no call changes the caller's Date object.
C9_CallsAreIndependent ==
    /\ \A i \in 1..Len(hist) : hist[i].out = OutcomeAlone(hist[i].call)
    /\ heap.now = heap.given

\* C9 witness: a call that failed, then a call that returned on the same Date
\* object.
C9_Witness ==
    /\ pc = "done"
    /\ Len(hist) = 2
    /\ hist[1].call.op = "solar"
    /\ hist[1].out.status = "error"
    /\ hist[2].call.op = "solar"
    /\ hist[2].call.date = hist[1].call.date
    /\ hist[2].out.status = "ok"

\* The 1-based ordinal of a valid date's UTC calendar day within its UTC year.
OrdinalDay(date) == date.tv.day - DayFromYear(YearFromDay(date.tv.day)) + 1

\* C10: the day number n of a call that returned is the 1-based ordinal of the
\* date's UTC calendar day in its UTC year, so 1 <= n <= 366 in every year.
C10_DayOfYearIsOrdinal ==
    SolarReturned
        => /\ locals.n = Num(OrdinalDay(call.date))
           /\ Within(locals.n, Num(1), Num(366))

\* |x|, and |x - y| <= tol; both false of NaN where a comparison is made.
Magnitude(x) == IF Lt(x, Num(0)) THEN Neg(x) ELSE x
Near(x, y, tol) == Le(Magnitude(Sub(x, y)), tol)

\* The fractional UTC hour of day of the call's instant, read off the time of
\* day in whole seconds: hour + minute / 60 + second / 3600.
SecondOfDay == heap.given.tv.ms \div 1000
HourOfCall ==
    Add(Add(Num(SecondOfDay \div 3600), Div(Num((SecondOfDay \div 60) % 60), Num(60))),
        Div(Num(SecondOfDay % 60), Num(3600)))

\* 15 * round(longitude / 15) for the call's longitude.
MeridianOfCall == Mul(Num(15), MathRound(Div(call.lon, Num(15))))

\* The call is for 12:00:00 UTC at a longitude that is a multiple of 15.
NoonOnMeridian ==
    /\ SecondOfDay = 12 * 3600
    /\ IsFinite(call.lon)
    /\ call.lon.v % (15 * Q) = 0

\* hourAngle = 15 * (h + (eqTime + 4 * (longitude - LSTM)) / 60 - 12), with
\* eqTime and the declination 7.5 and 23.45 times the same sine.
HourAngleFollowsFormula ==
    /\ locals.hourAngle = out.value.hourAngle
    /\ locals.lstm = MeridianOfCall
    /\ out.value.hourAngle =
          Mul(Num(15),
              Sub(Add(HourOfCall,
                      Div(Add(locals.eqTime, Mul(Num(4), Sub(call.lon, MeridianOfCall))),
                          Num(60))),
                  Num(12)))
    /\ IsNaN(locals.eqTime) = IsNaN(out.value.declination)
    /\ IsFinite(locals.eqTime) =>
          /\ Le(Magnitude(locals.eqTime), Fin(7500))
          /\ Near(Mul(locals.eqTime, Fin(23450)), Mul(out.value.declination, Fin(7500)),
                  Fin(20))

\* At noon on a standard meridian the hour angle is eqTime / 4, at most 1.875
\* degrees either way.
NoonHourAngleIsSmall ==
    NoonOnMeridian =>
        /\ Near(out.value.hourAngle, Div(locals.eqTime, Num(4)), Fin(10))
        /\ Le(Magnitude(out.value.hourAngle), Fin(1875))

\* C11: every computeSolarPotential that returns has
\* hourAngle = 15 * (h + (eqTime + 4 * (longitude - LSTM)) / 60 - 12), h the
\* fractional UTC hour of day, LSTM = 15 * round(longitude / 15), eqTime 7.5
\* times the sine the declination is 23.45 times; at 12:00:00 UTC on a
\* longitude that is a multiple of 15 the hour angle is eqTime / 4, of
\* magnitude at most 1.875 degrees.
C11_HourAngleFormula ==
    SolarReturned => (HourAngleFollowsFormula /\ NoonHourAngleIsSmall)

\* C11 with the instants left out whose day of year is not a number.
C11_FormulaWhereDayIsNumber ==
    (SolarReturned /\ IsFinite(locals.n)) => (HourAngleFollowsFormula /\ NoonHourAngleIsSmall)

\* The hour angle the same instant has d degrees of longitude further east.
ShiftedHourAngle(d) ==
    HourAngle(locals.hours, locals.eqTime, Add(call.lon, Num(d)),
              NearestMeridian(Add(call.lon, Num(d))))

\* A step of 15 degrees of longitude, either way, within [-180, 180] leaves the
\* hour angle of the instant as it is.
SameHourAngleEvery15Degrees ==
    \A d \in {-15, 15} :
        ~BadLongitude(Add(call.lon, Num(d))) => ShiftedHourAngle(d) = out.value.hourAngle

\* |longitude - LSTM| <= 7.5, and the hour angle is within 7.5 degrees of
\* 15 * (h - 12) + eqTime / 4 (and of the 0.01 degree the grid rounds by).
HourAngleNearMeridianTime ==
    /\ Le(Magnitude(Sub(call.lon, locals.lstm)), Fin(7500))
    /\ Near(out.value.hourAngle,
            Add(Mul(Num(15), Sub(HourOfCall, Num(12))), Div(locals.eqTime, Num(4))),
            Fin(7510))

\* C12: at a fixed UTC instant the hour angle depends on the longitude only
\* through its offset from the nearest multiple of 15 degrees: the calls with
\* lon and with lon + 15, both within [-180, 180], return the same hourAngle;
\* and |longitude - LSTM| <= 7.5, so the hour angle is within 7.5 degrees of
\* 15 * (h - 12) + eqTime / 4.
C12_LongitudeOffsetOnly ==
    SolarReturned => (SameHourAngleEvery15Degrees /\ HourAngleNearMeridianTime)

\* C12 with the instants left out whose day of year is not a number.
C12_OffsetOnlyWhereDayIsNumber ==
    (SolarReturned /\ IsFinite(locals.n))
        => (SameHourAngleEvery15Degrees /\ HourAngleNearMeridianTime)

\* The locals of the call with the same latitude and declination and the
\* opposite hour angle.
MirroredLocals ==
    WithTimes(call.lat,
              [n |-> locals.n, decl |-> locals.decl, hours |-> locals.hours,
               lstm |-> locals.lstm, eqTime |-> locals.eqTime,
               hourAngle |-> Neg(locals.hourAngle)])

\* A call returned with the sun up and an hour angle within [-180, 180].
DaytimeInRange ==
    /\ SolarReturned
    /\ Gt(out.value.altitude, Num(0))
    /\ Within(out.value.hourAngle, Num(-180), Num(180))

\* C13: a daytime result of computeSolarPotential whose hour angle H is within
\* [-180, 180] has its azimuth in [90, 180], before solar noon (H <= 0) and
\* after it (H > 0) alike; the daytime result with the same latitude and
\* declination and the hour angle -H has the same azimuth.
C13_AzimuthInSoutheastQuadrant ==
    DaytimeInRange =>
        /\ Within(out.value.azimuth, Num(90), Num(180))
        /\ Gt(MirroredLocals.altitude, Num(0)) => MirroredLocals.azimuth = out.value.azimuth

\* C13 witness: an afternoon result (H > 0) whose azimuth is strictly inside
\* (90, 180), the same as that of the morning result it mirrors.
C13_Witness ==
    /\ DaytimeInRange
    /\ Gt(out.value.hourAngle, Num(0))
    /\ Gt(out.value.azimuth, Num(90))
    /\ Lt(out.value.azimuth, Num(180))
    /\ Gt(MirroredLocals.altitude, Num(0))
    /\ MirroredLocals.azimuth = out.value.azimuth
====
